---- MODULE Spec2Model ----
(***************************************************************************)
(* A model of the in-process execution tracer of include/Profiler.hpp:     *)
(* the Profiler recorder (BeginSession / WriteProfile / EndSession under   *)
(* one std::mutex, writing through one std::ofstream), the lazily created  *)
(* singleton (GetInstance), and the ProfilerScope guard whose destructor   *)
(* submits one ProfileResult.                                              *)
(***************************************************************************)
EXTENDS Integers, Sequences, FiniteSets, TLC

(***************************************************************************)
(* Bounds of the model.                                                    *)
(***************************************************************************)
NumThreads == 2
MaxCalls == 4
MaxScopeCalls == 2
MaxDepth == 1
MaxClock == 1400
MaxGets == 4

Threads == 1..NumThreads

\* std::mutex m_Mutex with no owner; the null ProfilerSession pointer.
NoThread == 0
NULL == 0

\* Session names and destinations handed to BeginSession.  A path under a
\* directory that does not exist cannot be opened for writing.
GoodPaths == {"a.json", "b.json"}
BadPaths == {"nodir/x.json"}
Paths == GoodPaths \cup BadPaths
BeginArgs == {<<"S1", "a.json">>, <<"S2", "b.json">>, <<"S2", "nodir/x.json">>}
EventNames == {"f"}
ElapsedTimes == {2}
\* The caller's clock reading at its n-th call, in thousandths of a
\* microsecond: later calls read later times.
StartTimes(n) == {1500 * n + 250}
\* Amounts by which the steady clock may have advanced since it was last
\* read, in nanoseconds: nothing, or less than a microsecond.
TickSteps == {0, 700}

VARIABLES
  m_Mutex,           \* thread owning Profiler::m_Mutex, or NoThread
  m_CurrentSession,  \* address of the current ProfilerSession, or NULL
  heap,              \* live ProfilerSession objects: [addr, Name]
  m_OutStream,       \* the std::ofstream: [is_open, fail, path, buf]
  files,             \* the file system: path -> [exists, data]
  pc,                \* per thread: where it is inside the call it makes
  frame,             \* per thread: the arguments and locals of that call
  result,            \* per thread: how its last call ended
  calls,             \* number of calls made so far
  hist,              \* completed calls (operation and outcome), in the
                     \* order they released the lock
  abs,               \* the recorder as its callers may see it: the state
                     \* machine {Idle, SessionOpen} run on the completed calls
  exited,            \* the process has returned from main
  guards,            \* every ProfilerScope constructed so far
  stack,             \* per thread: its live ProfilerScope objects, innermost last
  unwind,            \* per thread: how it is leaving the guarded region
  now,               \* std::chrono::steady_clock, in nanoseconds
  terminated,        \* std::terminate has been called
  s_Instance,        \* Profiler::s_Instance: a Profiler, or NULL
  constructed,       \* number of Profiler objects constructed so far
  gpc,               \* per thread: where it is inside GetInstance
  got,               \* per thread: the instances GetInstance returned to it
  gets               \* number of GetInstance calls made so far

recVars == <<m_Mutex, m_CurrentSession, heap, m_OutStream, files>>
thrVars == <<pc, frame, result, calls>>
ghostVars == <<hist, abs>>
scopeVars == <<guards, stack, unwind, now, terminated>>
instVars == <<s_Instance, constructed, gpc, got, gets>>
vars == <<recVars, thrVars, ghostVars, exited, scopeVars, instVars>>

(***************************************************************************)
(* ProfileResult and its serialisation.                                    *)
(***************************************************************************)
\* A ProfileResult.  Start is the double microsecond count, kept in
\* thousandths of a microsecond; Elapsed is whole microseconds.
ProfileResult(Name, Start, Elapsed, ThreadId) ==
  [Name |-> Name, Start |-> Start, Elapsed |-> Elapsed, ThreadId |-> ThreadId]

NoResult == ProfileResult("", 0, 0, 0)

\* A piece of output text.  Literal pieces carry their text; the piece
\* holding the fields of one record carries the values as printed.
Lit(s) == [kind |-> "lit", text |-> s, cat |-> "", dur |-> 0, ph |-> "",
           pid |-> 0, tid |-> 0, ts |-> <<0, 0>>]

\* std::fixed with setprecision(3) applied to the double Start: the whole
\* microseconds and three decimals.  Elapsed.count() is an integer and is
\* printed as one.
Fixed3(thousandths) == <<thousandths \div 1000, thousandths % 1000>>

Fields(r) == [kind |-> "fields", text |-> r.Name, cat |-> "function",
              dur |-> r.Elapsed, ph |-> "X", pid |-> 0, tid |-> r.ThreadId,
              ts |-> Fixed3(r.Start)]

\* Mutant: the record is written without the comma before it.
FormatJson_NoComma(r) == <<Lit("{"), Fields(r), Lit("}")>>

\* The json string WriteProfile builds before it takes the lock.
FormatJson(r) == <<Lit(",{"), Fields(r), Lit("}")>>

Header == <<Lit("{\"otherData\": {},"), Lit("\"traceEvents\":[{}")>>
Footer == <<Lit("]}")>>

(***************************************************************************)
(* ProfileException and call results.                                      *)
(***************************************************************************)
Ok == [ok |-> TRUE, what |-> <<"", "">>]
ProfileException(msg, arg) == [ok |-> FALSE, what |-> <<msg, arg>>]
AlreadyOpened(name) == ProfileException("Profiling session already opened: ", name)
CouldNotOpen(path) == ProfileException("Could not open file: ", path)
NoOpenedSession == ProfileException("No opened profiling session!", "")

(***************************************************************************)
(* std::ofstream.                                                          *)
(***************************************************************************)
ClosedStream == [is_open |-> FALSE, fail |-> FALSE, path |-> "", buf |-> <<>>]
NoFile == [exists |-> FALSE, data |-> <<>>]

\* Mutant: a successful open leaves the error state of an earlier failure.
StreamOpen_KeepFail(s, fs, path) ==
  IF s.is_open \/ path \notin GoodPaths
    THEN <<[s EXCEPT !.fail = TRUE], fs>>
    ELSE <<[is_open |-> TRUE, fail |-> s.fail, path |-> path, buf |-> <<>>],
           [fs EXCEPT ![path] = [exists |-> TRUE, data |-> <<>>]]>>

\* Mutant: open keeps what the file already holds.
StreamOpen_NoTruncate(s, fs, path) ==
  IF s.is_open \/ path \notin GoodPaths
    THEN <<[s EXCEPT !.fail = TRUE], fs>>
    ELSE <<[is_open |-> TRUE, fail |-> FALSE, path |-> path, buf |-> <<>>],
           [fs EXCEPT ![path].exists = TRUE]>>

\* ofstream::open(path): fails (failbit) when the stream is already open or
\* the file cannot be created; otherwise creates or truncates the file and
\* clears the error state.
StreamOpen(s, fs, path) ==
  IF s.is_open \/ path \notin GoodPaths
    THEN <<[s EXCEPT !.fail = TRUE], fs>>
    ELSE <<[is_open |-> TRUE, fail |-> FALSE, path |-> path, buf |-> <<>>],
           [fs EXCEPT ![path] = [exists |-> TRUE, data |-> <<>>]]>>

\* Mutant: a piece of text is stored twice.
StreamPut_Twice(s, tok) ==
  IF s.is_open /\ ~s.fail
    THEN [s EXCEPT !.buf = @ \o <<tok, tok>>]
    ELSE [s EXCEPT !.fail = TRUE]

\* operator<< of one piece of text: buffered when the stream is good and
\* open, otherwise the stream goes bad and nothing is stored.
StreamPut(s, tok) ==
  IF s.is_open /\ ~s.fail
    THEN [s EXCEPT !.buf = Append(@, tok)]
    ELSE [s EXCEPT !.fail = TRUE]

\* Mutant: flush leaves the text in the buffer.
StreamFlush_NoOp(s, fs) == <<s, fs>>

\* ofstream::flush(): the buffered text reaches the file.
StreamFlush(s, fs) ==
  IF s.is_open /\ ~s.fail
    THEN <<[s EXCEPT !.buf = <<>>],
           [fs EXCEPT ![s.path].data = @ \o s.buf]>>
    ELSE <<s, fs>>

\* Mutant: close flushes and leaves the stream open.
StreamClose_LeavesOpen(s, fs) ==
  IF s.is_open
    THEN <<[s EXCEPT !.buf = <<>>],
           [fs EXCEPT ![s.path].data = @ \o s.buf]>>
    ELSE <<[s EXCEPT !.fail = TRUE], fs>>

\* ofstream::close(): flushes what is buffered and closes; failbit when the
\* stream was not open.
StreamClose(s, fs) ==
  IF s.is_open
    THEN <<[s EXCEPT !.is_open = FALSE, !.buf = <<>>, !.path = ""],
           [fs EXCEPT ![s.path].data = @ \o s.buf]>>
    ELSE <<[s EXCEPT !.fail = TRUE], fs>>

(***************************************************************************)
(* The heap of ProfilerSession objects.                                    *)
(***************************************************************************)
Addrs(h) == {o.addr : o \in h}
NewAddr(h) == CHOOSE a \in 1..(Cardinality(h) + 1) :
                a \notin Addrs(h) /\ \A b \in 1..(a - 1) : b \in Addrs(h)
SessionAt(h, a) == CHOOSE o \in h : o.addr = a
New(h, name) == h \cup {[addr |-> NewAddr(h), Name |-> name]}
Delete(h, a) == {o \in h : o.addr # a}

(***************************************************************************)
(* The trace format, and the recorder as its callers may see it: a state   *)
(* machine {Idle, SessionOpen} stepped once per completed call, with the   *)
(* text each destination should hold and, per thread, the records the      *)
(* current (or most recent) session accepted from it, and the results of   *)
(* the WriteProfile calls of that session in the order in which they were  *)
(* granted the lock.                                                       *)
(***************************************************************************)
TraceHeader == <<Lit("{\"otherData\": {},"), Lit("\"traceEvents\":[{}")>>
TraceFooter == <<Lit("]}")>>
TraceRecord(e) ==
  <<Lit(",{"),
    [kind |-> "fields", text |-> e.Name, cat |-> "function",
     dur |-> e.Elapsed, ph |-> "X", pid |-> 0, tid |-> e.ThreadId,
     ts |-> <<e.Start \div 1000, e.Start % 1000>>],
    Lit("}")>>

AbsInit ==
  [open |-> FALSE, name |-> "", path |-> "",
   wrote |-> [t \in Threads |-> 0],
   granted |-> <<>>,
   out |-> [p \in GoodPaths |-> NoFile]]

\* A call with locals f is granted the lock.
AbsLock(a, f) ==
  IF f.op = "WriteProfile" /\ a.open
    THEN [a EXCEPT !.granted = Append(@, f.result)]
    ELSE a

AbsStep(a, f, res) ==
  CASE f.op = "BeginSession" /\ res.ok ->
         [open |-> TRUE, name |-> f.name, path |-> f.filePath,
          wrote |-> [t \in Threads |-> 0],
          granted |-> <<>>,
          out |-> [a.out EXCEPT ![f.filePath] =
                     [exists |-> TRUE, data |-> TraceHeader]]]
    [] f.op = "WriteProfile" /\ res.ok /\ a.open ->
         [a EXCEPT !.out[a.path].data = @ \o TraceRecord(f.result),
                   !.wrote[f.result.ThreadId] = @ + 1]
    [] f.op = "EndSession" /\ a.open ->
         [a EXCEPT !.open = FALSE, !.name = "",
                   !.out[a.path].data = @ \o TraceFooter]
    [] OTHER -> a

(***************************************************************************)
(* Initial state: the Profiler as its constructor leaves it.               *)
(***************************************************************************)
NoFrame == [op |-> "", caller |-> "api", name |-> "", filePath |-> "",
            result |-> NoResult, json |-> <<>>]

Init ==
  /\ m_Mutex = NoThread
  /\ m_CurrentSession = NULL
  /\ heap = {}
  /\ m_OutStream = ClosedStream
  /\ files = [p \in GoodPaths |-> NoFile]
  /\ pc = [t \in Threads |-> "idle"]
  /\ frame = [t \in Threads |-> NoFrame]
  /\ result = [t \in Threads |-> Ok]
  /\ calls = 0
  /\ hist = <<>>
  /\ abs = AbsInit
  /\ exited = FALSE
  /\ guards = <<>>
  /\ stack = [t \in Threads |-> <<>>]
  /\ unwind = [t \in Threads |-> "none"]
  /\ now = 0
  /\ terminated = FALSE
  /\ s_Instance = 1
  /\ constructed = 1
  /\ gpc = [t \in Threads |-> "idle"]
  /\ got = [t \in Threads |-> {}]
  /\ gets = 0

(***************************************************************************)
(* Leaving a call: the std::scoped_lock is destroyed on return and on      *)
(* throw alike.                                                            *)
(***************************************************************************)
Done(t, res) == [op |-> frame[t].op, res |-> res]

\* Where a call leaves its caller: back in the thread's own code, or in
\* ~ProfilerScope with WriteProfile returned or thrown.
AfterLeave(caller, res) ==
  IF caller = "api" THEN "idle"
  ELSE IF res.ok THEN "dtor_ret" ELSE "dtor_throw"

\* Mutant: the lock excludes nobody.
Acquirable_Always(t) == TRUE

\* The lock can be taken by t.
Acquirable(t) == m_Mutex = NoThread

Leave(t, res) ==
  /\ m_Mutex' = NoThread
  /\ result' = [result EXCEPT ![t] = res]
  /\ hist' = Append(hist, Done(t, res))
  /\ abs' = AbsStep(abs, frame[t], res)
  /\ pc' = [pc EXCEPT ![t] = AfterLeave(frame[t].caller, res)]
  /\ frame' = [frame EXCEPT ![t] = NoFrame]

\* Mutant: a throw leaves the call with the mutex still locked.
Throw_KeepLock(t, e) ==
  /\ m_Mutex' = m_Mutex
  /\ result' = [result EXCEPT ![t] = e]
  /\ hist' = Append(hist, Done(t, e))
  /\ abs' = AbsStep(abs, frame[t], e)
  /\ pc' = [pc EXCEPT ![t] = AfterLeave(frame[t].caller, e)]
  /\ frame' = [frame EXCEPT ![t] = NoFrame]

Throw(t, e) == Leave(t, e)

(***************************************************************************)
(* The calls a thread makes.                                               *)
(***************************************************************************)
Running == ~exited /\ ~terminated

CanCall(t) == pc[t] = "idle" /\ calls < MaxCalls /\ Running

CallBeginSession(t) ==
  /\ CanCall(t)
  /\ \E a \in BeginArgs :
       frame' = [frame EXCEPT ![t] = [NoFrame EXCEPT !.op = "BeginSession",
                                        !.name = a[1], !.filePath = a[2]]]
  /\ pc' = [pc EXCEPT ![t] = "B_lock"]
  /\ calls' = calls + 1
  /\ UNCHANGED <<recVars, result, ghostVars, exited>>

\* WriteProfile formats the record before it takes the lock.
CallWriteProfile(t) ==
  /\ CanCall(t)
  /\ \E n \in EventNames, s \in StartTimes(calls), d \in ElapsedTimes :
       LET r == ProfileResult(n, s, d, t) IN
       frame' = [frame EXCEPT ![t] = [NoFrame EXCEPT !.op = "WriteProfile",
                                        !.result = r, !.json = FormatJson(r)]]
  /\ pc' = [pc EXCEPT ![t] = "W_lock"]
  /\ calls' = calls + 1
  /\ UNCHANGED <<recVars, result, ghostVars, exited>>

CallEndSession(t) ==
  /\ CanCall(t)
  /\ frame' = [frame EXCEPT ![t] = [NoFrame EXCEPT !.op = "EndSession"]]
  /\ pc' = [pc EXCEPT ![t] = "E_lock"]
  /\ calls' = calls + 1
  /\ UNCHANGED <<recVars, result, ghostVars, exited>>

(***************************************************************************)
(* std::scoped_lock lock{ m_Mutex }                                        *)
(***************************************************************************)
AfterLock(l) == CASE l = "B_lock" -> "B_check"
                  [] l = "W_lock" -> "W_check"
                  [] l = "E_lock" -> "E_check"

ScopedLock(t) ==
  /\ pc[t] \in {"B_lock", "W_lock", "E_lock"}
  /\ Acquirable(t)
  /\ m_Mutex' = t
  /\ pc' = [pc EXCEPT ![t] = AfterLock(pc[t])]
  /\ abs' = AbsLock(abs, frame[t])
  /\ UNCHANGED <<m_CurrentSession, heap, m_OutStream, files, frame, result,
                 calls, hist, exited>>

(***************************************************************************)
(* Profiler::BeginSession                                                  *)
(***************************************************************************)
\* Mutant: BeginSession does not look for a session that is open.
SessionAlreadyOpen_Unchecked(t) == FALSE

\* if (m_CurrentSession) throw ...;  the call after the throw never runs.
SessionAlreadyOpen(t) == m_CurrentSession # NULL

BeginCheck(t) ==
  /\ pc[t] = "B_check"
  /\ IF SessionAlreadyOpen(t)
       THEN /\ Throw(t, AlreadyOpened(SessionAt(heap, m_CurrentSession).Name))
            /\ UNCHANGED <<m_CurrentSession, heap, m_OutStream, files>>
       ELSE /\ pc' = [pc EXCEPT ![t] = "B_open"]
            /\ UNCHANGED <<recVars, frame, result, ghostVars>>
  /\ UNCHANGED <<calls, exited>>

\* m_OutStream.open(filePath)
BeginOpen(t) ==
  /\ pc[t] = "B_open"
  /\ LET o == StreamOpen(m_OutStream, files, frame[t].filePath) IN
       /\ m_OutStream' = o[1]
       /\ files' = o[2]
  /\ pc' = [pc EXCEPT ![t] = "B_isopen"]
  /\ UNCHANGED <<m_Mutex, m_CurrentSession, heap, frame, result, calls, ghostVars,
                 exited>>

\* if (!is_open()) throw ...; m_CurrentSession = new ...; WriteHeader()
BeginNew(t) ==
  /\ pc[t] = "B_isopen"
  /\ IF ~m_OutStream.is_open
       THEN /\ Throw(t, CouldNotOpen(frame[t].filePath))
            /\ UNCHANGED <<m_CurrentSession, heap, m_OutStream, files>>
       ELSE /\ heap' = New(heap, frame[t].name)
            /\ m_CurrentSession' = NewAddr(heap)
            /\ frame' = [frame EXCEPT ![t].json = Header]
            /\ pc' = [pc EXCEPT ![t] = "put"]
            /\ UNCHANGED <<m_Mutex, m_OutStream, files, result, ghostVars>>
  /\ UNCHANGED <<calls, exited>>

(***************************************************************************)
(* m_OutStream << text; m_OutStream.flush()                                *)
(* (WriteHeader, WriteFooter and the tail of WriteProfile)                 *)
(***************************************************************************)
Put(t) ==
  /\ pc[t] = "put"
  /\ m_OutStream' = StreamPut(m_OutStream, Head(frame[t].json))
  /\ frame' = [frame EXCEPT ![t].json = Tail(@)]
  /\ pc' = [pc EXCEPT ![t] = IF Len(frame[t].json) = 1 THEN "flush" ELSE "put"]
  /\ UNCHANGED <<m_Mutex, m_CurrentSession, heap, files, result, calls, ghostVars,
                 exited>>

AfterFlush(op) == IF op = "EndSession" THEN "E_close" ELSE "ret"

Flush(t) ==
  /\ pc[t] = "flush"
  /\ LET o == StreamFlush(m_OutStream, files) IN
       /\ m_OutStream' = o[1]
       /\ files' = o[2]
  /\ pc' = [pc EXCEPT ![t] = AfterFlush(frame[t].op)]
  /\ UNCHANGED <<m_Mutex, m_CurrentSession, heap, frame, result, calls, ghostVars,
                 exited>>

(***************************************************************************)
(* Profiler::WriteProfile, from the lock on                                *)
(***************************************************************************)
\* Mutant: WriteProfile writes whether or not a session is open.
NoSession_Unchecked(t) == FALSE

\* if (!m_CurrentSession) throw ...
NoSession(t) == m_CurrentSession = NULL

WriteCheck(t) ==
  /\ pc[t] = "W_check"
  /\ IF NoSession(t)
       THEN /\ Throw(t, NoOpenedSession)
            /\ UNCHANGED <<m_CurrentSession, heap, m_OutStream, files>>
       ELSE /\ pc' = [pc EXCEPT ![t] = "put"]
            /\ UNCHANGED <<recVars, frame, result, ghostVars>>
  /\ UNCHANGED <<calls, exited>>

(***************************************************************************)
(* Profiler::EndSession and EndSessionNoLock_                              *)
(***************************************************************************)
\* Mutant: EndSessionNoLock_ closes without looking for a session.
HasSession_Unchecked(t) == TRUE

\* if (m_CurrentSession) { ... }
HasSession(t) == m_CurrentSession # NULL

EndCheck(t) ==
  /\ pc[t] = "E_check"
  /\ IF HasSession(t)
       THEN /\ frame' = [frame EXCEPT ![t].json = Footer]
            /\ pc' = [pc EXCEPT ![t] = "put"]
       ELSE /\ pc' = [pc EXCEPT ![t] = "ret"]
            /\ UNCHANGED frame
  /\ UNCHANGED <<recVars, result, calls, ghostVars, exited>>

\* m_OutStream.close(); delete m_CurrentSession; m_CurrentSession = nullptr
EndClose(t) ==
  /\ pc[t] = "E_close"
  /\ LET o == StreamClose(m_OutStream, files) IN
       /\ m_OutStream' = o[1]
       /\ files' = o[2]
  /\ heap' = Delete(heap, m_CurrentSession)
  /\ m_CurrentSession' = NULL
  /\ pc' = [pc EXCEPT ![t] = "ret"]
  /\ UNCHANGED <<m_Mutex, frame, result, calls, ghostVars, exited>>

\* Normal return: the scoped_lock releases the mutex.
Return(t) ==
  /\ pc[t] = "ret"
  /\ Leave(t, Ok)
  /\ UNCHANGED <<m_CurrentSession, heap, m_OutStream, files, calls, exited>>

(***************************************************************************)
(* Process exit.  s_Instance is a raw pointer to a heap object that        *)
(* nothing deletes (the destructor is private and no code destroys the     *)
(* instance), so ~Profiler never runs: the Profiler, its stream and any    *)
(* open session are left as they are.                                      *)
(***************************************************************************)
ProcessExit ==
  /\ ~exited
  /\ \A t \in Threads : pc[t] = "idle"
  /\ exited' = TRUE
  /\ UNCHANGED <<recVars, thrVars, ghostVars>>

(***************************************************************************)
(* ProfilerScope                                                           *)
(***************************************************************************)
Guard(owner, name, start) ==
  [owner |-> owner, m_Name |-> name, m_Start |-> start, state |-> "alive",
   how |-> "", submits |-> 0, endTimePoint |-> start, ev |-> NoResult]

Top(t) == stack[t][Len(stack[t])]

\* steady_clock::now(): the readings the clock may give now, none of them
\* before the last one.
Readings == {now + d : d \in {e \in TickSteps : now + e <= MaxClock}}

\* ProfilerScope(name): m_Name{ name }, m_Start = steady_clock::now()
ScopeEnter(t) ==
  /\ Running
  /\ pc[t] = "idle"
  /\ calls < MaxScopeCalls
  /\ Len(stack[t]) < MaxDepth
  /\ \E name \in EventNames, reading \in Readings :
       /\ now' = reading
       /\ guards' = Append(guards, Guard(t, name, reading))
  /\ stack' = [stack EXCEPT ![t] = Append(@, Len(guards) + 1)]
  /\ calls' = calls + 1
  /\ UNCHANGED <<recVars, pc, frame, result, ghostVars, exited, unwind,
                 terminated, instVars>>

\* Control leaves the guarded region: it runs off its end, leaves early
\* (return, break), or an exception propagates out of it.
ScopeExit(t) ==
  /\ Running
  /\ pc[t] = "idle"
  /\ stack[t] # <<>>
  /\ \E how \in {"normal", "early", "exception"} :
       /\ unwind' = [unwind EXCEPT ![t] = how]
       /\ guards' = [guards EXCEPT ![Top(t)].how = how]
  /\ pc' = [pc EXCEPT ![t] = "dtor"]
  /\ UNCHANGED <<recVars, frame, result, calls, ghostVars, exited, stack, now,
                 terminated, instVars>>

\* time_point_cast<microseconds>: the whole microseconds of a reading.
ToMicroseconds(ns) == ns \div 1000

\* Mutant: the start reading less the end reading.
StopResult_Swapped(g, endTime, tid) ==
  ProfileResult(g.m_Name, g.m_Start,
                ToMicroseconds(g.m_Start) - ToMicroseconds(endTime), tid)

\* The ProfileResult Stop() builds from m_Start and the reading endTime.
StopResult(g, endTime, tid) ==
  ProfileResult(g.m_Name, g.m_Start,
                ToMicroseconds(endTime) - ToMicroseconds(g.m_Start), tid)

\* Mutant: no Stop() while an exception unwinds the stack.
DtorCallsStop_NotUnwinding(how) == how # "exception"

\* The destructor calls Stop() whatever way the region was left.
DtorCallsStop(how) == TRUE

\* ~ProfilerScope() { Stop(); }:  Stop() reads the clock, builds the result
\* and calls Profiler::GetInstance().WriteProfile(result).
Dtor(t) ==
  /\ Running
  /\ pc[t] = "dtor"
  /\ IF DtorCallsStop(unwind[t])
       THEN \E endTime \in Readings :
              LET r == StopResult(guards[Top(t)], endTime, t) IN
              /\ now' = endTime
              /\ guards' = [guards EXCEPT ![Top(t)].state = "stopping",
                                          ![Top(t)].submits = @ + 1,
                                          ![Top(t)].endTimePoint = endTime,
                                          ![Top(t)].ev = r]
              /\ frame' = [frame EXCEPT ![t] =
                             [NoFrame EXCEPT !.op = "WriteProfile",
                                !.caller = "dtor", !.result = r,
                                !.json = FormatJson(r)]]
              /\ pc' = [pc EXCEPT ![t] = "W_lock"]
       ELSE /\ guards' = [guards EXCEPT ![Top(t)].state = "stopping"]
            /\ pc' = [pc EXCEPT ![t] = "dtor_ret"]
            /\ UNCHANGED <<frame, now>>
  /\ UNCHANGED <<recVars, result, calls, ghostVars, exited, stack, unwind,
                 terminated, instVars>>

\* Stop() returned: the guard is gone.  Leaving early or by an exception
\* may go on through the enclosing guarded regions of the thread.
DtorReturn(t) ==
  /\ Running
  /\ pc[t] = "dtor_ret"
  /\ stack' = [stack EXCEPT ![t] = SubSeq(@, 1, Len(@) - 1)]
  /\ \/ /\ unwind[t] \in {"early", "exception"}
        /\ Len(stack[t]) > 1
        /\ guards' = [guards EXCEPT ![Top(t)].state = "destroyed",
                                    ![stack[t][Len(stack[t]) - 1]].how = unwind[t]]
        /\ pc' = [pc EXCEPT ![t] = "dtor"]
        /\ UNCHANGED unwind
     \/ /\ guards' = [guards EXCEPT ![Top(t)].state = "destroyed"]
        /\ pc' = [pc EXCEPT ![t] = "idle"]
        /\ unwind' = [unwind EXCEPT ![t] = "none"]
  /\ UNCHANGED <<recVars, frame, result, calls, ghostVars, exited, now,
                 terminated, instVars>>

\* WriteProfile threw inside ~ProfilerScope, which is noexcept as every
\* destructor without an exception specification is: std::terminate.
DtorThrow(t) ==
  /\ Running
  /\ pc[t] = "dtor_throw"
  /\ terminated' = TRUE
  /\ UNCHANGED <<recVars, thrVars, ghostVars, exited, guards, stack, unwind,
                 now, instVars>>

(***************************************************************************)
(* Profiler::GetInstance                                                   *)
(***************************************************************************)
GetInstanceCall(t) ==
  /\ gpc[t] = "idle"
  /\ gets < MaxGets
  /\ gets' = gets + 1
  /\ gpc' = [gpc EXCEPT ![t] = "G_test"]
  /\ UNCHANGED <<s_Instance, constructed, got>>

\* if (!s_Instance)
InstanceMissing == s_Instance = NULL

GetInstanceTest(t) ==
  /\ gpc[t] = "G_test"
  /\ gpc' = [gpc EXCEPT ![t] = IF InstanceMissing THEN "G_new" ELSE "G_ret"]
  /\ UNCHANGED <<s_Instance, constructed, got, gets>>

\* s_Instance = new Profiler()
GetInstanceNew(t) ==
  /\ gpc[t] = "G_new"
  /\ constructed' = constructed + 1
  /\ s_Instance' = constructed + 1
  /\ gpc' = [gpc EXCEPT ![t] = "G_ret"]
  /\ UNCHANGED <<got, gets>>

\* return *s_Instance
GetInstanceReturn(t) ==
  /\ gpc[t] = "G_ret"
  /\ got' = [got EXCEPT ![t] = @ \cup {s_Instance}]
  /\ gpc' = [gpc EXCEPT ![t] = "idle"]
  /\ UNCHANGED <<s_Instance, constructed, gets>>

RecorderStep(t) ==
  /\ Running
  /\ UNCHANGED <<scopeVars, instVars>>
  /\ \/ ScopedLock(t)
     \/ BeginCheck(t)
     \/ BeginOpen(t)
     \/ BeginNew(t)
     \/ Put(t)
     \/ Flush(t)
     \/ WriteCheck(t)
     \/ EndCheck(t)
     \/ EndClose(t)
     \/ Return(t)

SessionCall(t) ==
  /\ UNCHANGED <<scopeVars, instVars>>
  /\ \/ CallBeginSession(t)
     \/ CallEndSession(t)

DirectWrite(t) ==
  /\ UNCHANGED <<scopeVars, instVars>>
  /\ CallWriteProfile(t)

Exit ==
  /\ UNCHANGED <<scopeVars, instVars>>
  /\ ProcessExit

(***************************************************************************)
(* The recorder under direct calls from every thread.                      *)
(***************************************************************************)
Next ==
  \/ \E t \in Threads : SessionCall(t)
  \/ \E t \in Threads : DirectWrite(t)
  \/ \E t \in Threads : RecorderStep(t)
  \/ Exit

Spec == Init /\ [][Next]_vars

\* The same under fair scheduling: a thread that can take a step of the
\* call it is in eventually takes one.
SpecLive == Init /\ [][Next]_vars /\ \A t \in Threads : WF_vars(RecorderStep(t))

(***************************************************************************)
(* Threads running guarded regions while sessions are begun and ended.     *)
(***************************************************************************)
NextScope ==
  \/ \E t \in Threads : calls < MaxScopeCalls /\ SessionCall(t)
  \/ \E t \in Threads : RecorderStep(t)
  \/ \E t \in Threads : ScopeEnter(t)
  \/ \E t \in Threads : ScopeExit(t)
  \/ \E t \in Threads : Dtor(t)
  \/ \E t \in Threads : DtorReturn(t)
  \/ \E t \in Threads : DtorThrow(t)

SpecScope == Init /\ [][NextScope]_vars

(***************************************************************************)
(* Threads calling GetInstance from the start of the process, when no      *)
(* Profiler exists yet.                                                    *)
(***************************************************************************)
InitInstance ==
  /\ m_Mutex = NoThread
  /\ m_CurrentSession = NULL
  /\ heap = {}
  /\ m_OutStream = ClosedStream
  /\ files = [p \in GoodPaths |-> NoFile]
  /\ pc = [t \in Threads |-> "idle"]
  /\ frame = [t \in Threads |-> NoFrame]
  /\ result = [t \in Threads |-> Ok]
  /\ calls = 0
  /\ hist = <<>>
  /\ abs = AbsInit
  /\ exited = FALSE
  /\ guards = <<>>
  /\ stack = [t \in Threads |-> <<>>]
  /\ unwind = [t \in Threads |-> "none"]
  /\ now = 0
  /\ terminated = FALSE
  /\ s_Instance = NULL
  /\ constructed = 0
  /\ gpc = [t \in Threads |-> "idle"]
  /\ got = [t \in Threads |-> {}]
  /\ gets = 0

InstanceStep(t) ==
  /\ UNCHANGED <<recVars, thrVars, ghostVars, exited, scopeVars>>
  /\ \/ GetInstanceCall(t)
     \/ GetInstanceTest(t)
     \/ GetInstanceNew(t)
     \/ GetInstanceReturn(t)

NextInstance == \E t \in Threads : InstanceStep(t)

SpecInstance == InitInstance /\ [][NextInstance]_vars

(***************************************************************************)
(* Properties.                                                             *)
(***************************************************************************)
Quiescent == m_Mutex = NoThread

\* Thread t takes a step.
Steps(t) == <<pc[t], frame[t]>>' # <<pc[t], frame[t]>>

\* Thread t, inside a call of op, takes the step that completes the call.
Completes(t, op) ==
  /\ frame[t].op = op
  /\ pc'[t] # pc[t]
  /\ Len(hist') = Len(hist) + 1

IsAlreadyOpened(res) == ~res.ok /\ res.what[1] = "Profiling session already opened: "
IsCouldNotOpen(res) == ~res.ok /\ res.what[1] = "Could not open file: "

\* d is a header, then complete records, then (closed) one footer.
IsTrace(d, closed) ==
  LET n == Len(d) - Len(TraceHeader) - (IF closed THEN Len(TraceFooter) ELSE 0)
  IN /\ n >= 0
     /\ n % 3 = 0
     /\ SubSeq(d, 1, Len(TraceHeader)) = TraceHeader
     /\ closed => SubSeq(d, Len(d) - Len(TraceFooter) + 1, Len(d)) = TraceFooter
     /\ \A k \in 0..((n \div 3) - 1) :
          LET i == Len(TraceHeader) + 3 * k IN
          /\ d[i + 1] = Lit(",{")
          /\ d[i + 2].kind = "fields"
          /\ d[i + 3] = Lit("}")

RecordsOf(d, t) == {i \in DOMAIN d : d[i].kind = "fields" /\ d[i].tid = t}
AllRecords(d) == {i \in DOMAIN d : d[i].kind = "fields"}
Footers(d) == {i \in DOMAIN d : d[i] = Lit("]}")}

(***************************************************************************)
(* C1.  At most one session is open at any instant, and a BeginSession     *)
(* issued while a session is open fails with the session-already-open      *)
(* error naming that session and leaves it unchanged (same session, same   *)
(* sink still open, nothing written, no footer), so that a WriteProfile    *)
(* that follows succeeds and appends to the first session's output.        *)
(***************************************************************************)
C1_AtMostOne ==
  /\ Cardinality(heap) <= 1
  /\ m_CurrentSession = NULL <=> heap = {}
  /\ m_CurrentSession # NULL => m_CurrentSession \in Addrs(heap)
  /\ Quiescent => (abs.open <=> m_CurrentSession # NULL)
  /\ (Quiescent /\ abs.open) =>
       /\ SessionAt(heap, m_CurrentSession).Name = abs.name
       /\ m_OutStream.is_open /\ m_OutStream.path = abs.path
       /\ files[abs.path] = abs.out[abs.path]

C1_ThenWrite ==
  \A i \in 1..(Len(hist) - 1) :
    (IsAlreadyOpened(hist[i].res) /\ hist[i + 1].op = "WriteProfile")
      => hist[i + 1].res = Ok

C1_Rejected(t) ==
  (Completes(t, "BeginSession") /\ abs.open) =>
    /\ result'[t] = AlreadyOpened(abs.name)
    /\ UNCHANGED <<m_CurrentSession, heap, m_OutStream, files, abs>>
    /\ m_Mutex' = NoThread

Exclusivity ==
  /\ [](C1_AtMostOne /\ C1_ThenWrite)
  /\ [][\A t \in Threads : C1_Rejected(t)]_vars

\* A second BeginSession was rejected, the WriteProfile after it succeeded
\* and its record stands in the first session's output.
ExclusivityWitness ==
  /\ Quiescent
  /\ Len(hist) = 3
  /\ hist[1] = [op |-> "BeginSession", res |-> Ok]
  /\ hist[2] = [op |-> "BeginSession", res |-> AlreadyOpened("S1")]
  /\ hist[3] = [op |-> "WriteProfile", res |-> Ok]
  /\ m_CurrentSession # NULL
  /\ abs.name = "S1"
  /\ Len(files["a.json"].data) = Len(TraceHeader) + 3
  /\ IsTrace(files["a.json"].data, FALSE)

(***************************************************************************)
(* C2.  WriteProfile fails with the no-active-session error if and only    *)
(* if no session is open when its critical section holds the lock: with a  *)
(* session open it succeeds, with none it fails, also after a failed       *)
(* BeginSession and after EndSession.                                      *)
(***************************************************************************)
C2_Gated(t) ==
  Completes(t, "WriteProfile") =>
    result'[t] = IF abs.open THEN Ok ELSE NoOpenedSession

WriteGating == [][\A t \in Threads : C2_Gated(t)]_vars

\* One WriteProfile succeeded inside a session and the one after
\* EndSession failed.
WriteGatingWitness ==
  /\ Quiescent
  /\ Len(hist) = 4
  /\ hist[1] = [op |-> "BeginSession", res |-> Ok]
  /\ hist[2] = [op |-> "WriteProfile", res |-> Ok]
  /\ hist[3] = [op |-> "EndSession", res |-> Ok]
  /\ hist[4] = [op |-> "WriteProfile", res |-> NoOpenedSession]

(***************************************************************************)
(* C3.  EndSession with no session open is a no-op that never fails: it    *)
(* writes nothing (no second footer to an output already closed) and       *)
(* leaves the recorder Idle, so EndSession; EndSession leaves what one     *)
(* EndSession leaves.                                                      *)
(***************************************************************************)
C3_NoOp(t) ==
  (frame[t].op = "EndSession" /\ pc[t] # "E_lock" /\ pc'[t] # pc[t]
     /\ ~abs.open) =>
    /\ UNCHANGED <<m_CurrentSession, heap, m_OutStream, files, abs>>
    /\ m_CurrentSession = NULL
    /\ pc'[t] = "idle" => result'[t] = Ok

C3_NeverFails ==
  /\ \A i \in 1..Len(hist) : hist[i].op = "EndSession" => hist[i].res = Ok
  /\ \A p \in GoodPaths : Cardinality(Footers(files[p].data)) <= 1

IdempotentEnd ==
  /\ []C3_NeverFails
  /\ [][\A t \in Threads : C3_NoOp(t)]_vars

\* Two EndSession calls in a row after a session: one footer.
IdempotentEndWitness ==
  /\ Quiescent
  /\ Len(hist) = 3
  /\ hist[1] = [op |-> "BeginSession", res |-> Ok]
  /\ hist[2] = [op |-> "EndSession", res |-> Ok]
  /\ hist[3] = [op |-> "EndSession", res |-> Ok]
  /\ \E p \in GoodPaths : files[p].data = TraceHeader \o TraceFooter
  /\ m_CurrentSession = NULL

(***************************************************************************)
(* C4.  After BeginSession, N successful WriteProfile calls and            *)
(* EndSession, the destination holds exactly the header, the N             *)
(* comma-prefixed records in the order of the calls, and one footer.       *)
(***************************************************************************)
Framing ==
  Quiescent =>
    \A p \in GoodPaths :
      ~(abs.open /\ abs.path = p) =>
        /\ files[p] = abs.out[p]
        /\ files[p].exists => IsTrace(files[p].data, TRUE)

\* A closed session with two records.
FramingWitness ==
  /\ Quiescent
  /\ ~abs.open
  /\ Len(hist) = 4
  /\ hist[4].op = "EndSession"
  /\ \E p \in GoodPaths :
       /\ Cardinality(AllRecords(files[p].data)) = 2
       /\ Len(files[p].data) = Len(TraceHeader) + 6 + Len(TraceFooter)

(***************************************************************************)
(* C5.  When several threads measure concurrently inside one session, the  *)
(* output holds exactly one record per measurement (M threads, K each:     *)
(* M*K records), each complete and contiguous: no record's text is mixed   *)
(* with another record's, with the header or with the footer.              *)
(***************************************************************************)
ConcurrentSerialization ==
  (Quiescent /\ abs.path # "") =>
    LET d == files[abs.path].data IN
    /\ IsTrace(d, ~abs.open)
    /\ \A t \in Threads : Cardinality(RecordsOf(d, t)) = abs.wrote[t]

\* Every thread measured once in the session, now closed; the record of the
\* call made later stands first, so the two calls overlapped.
ConcurrentSerializationWitness ==
  /\ Quiescent
  /\ ~abs.open
  /\ abs.path # ""
  /\ \A t \in Threads : abs.wrote[t] = 1
  /\ LET d == files[abs.path].data IN
       /\ Cardinality(AllRecords(d)) = NumThreads
       /\ d[Len(TraceHeader) + 2].ts[1] > d[Len(TraceHeader) + 5].ts[1]

(***************************************************************************)
(* C6.  Every ProfilerScope submits exactly one ProfileResult to the       *)
(* recorder, once, when it is destroyed, whichever way its region was      *)
(* left (off its end, early, or by an exception): none submits zero and    *)
(* none submits two.                                                       *)
(***************************************************************************)
Submitted == {i \in 1..Len(guards) : guards[i].state # "alive"}
WriteProfileCalls ==
  Cardinality({i \in 1..Len(hist) : hist[i].op = "WriteProfile"})
    + Cardinality({t \in Threads : frame[t].op = "WriteProfile"})

ExactlyOnce ==
  /\ \A i \in 1..Len(guards) :
       LET g == guards[i] IN
       /\ g.state = "alive" => (g.submits = 0 /\ g.ev = NoResult)
       /\ g.state # "alive" =>
            (g.submits = 1 /\ g.ev.Name = g.m_Name /\ g.ev.Start = g.m_Start
               /\ g.ev.ThreadId = g.owner)
       /\ (g.how # "" /\ pc[g.owner] # "dtor") => g.state # "alive"
  /\ WriteProfileCalls = Cardinality(Submitted)

\* A guard whose region was left by an exception is destroyed and has
\* submitted once; the record stands in the session's output.
ExactlyOnceWitness ==
  \E i \in 1..Len(guards) :
    /\ guards[i].state = "destroyed"
    /\ guards[i].how = "exception"
    /\ guards[i].submits = 1
    /\ abs.open
    /\ abs.wrote[guards[i].owner] = 1

(***************************************************************************)
(* C7.  At process exit a session that is still open is closed as          *)
(* EndSession would close it: the footer is written, the sink closed and   *)
(* the session released, so the output of a program that never calls       *)
(* EndSession still ends with the footer.                                  *)
(***************************************************************************)
ExitForceCloses ==
  exited =>
    /\ m_CurrentSession = NULL
    /\ ~m_OutStream.is_open
    /\ \A p \in GoodPaths :
         files[p].exists => IsTrace(files[p].data, TRUE)

(***************************************************************************)
(* C8.  Whatever way calls of GetInstance interleave, first calls that     *)
(* overlap included, one Profiler is ever constructed and every call       *)
(* returns it.                                                             *)
(***************************************************************************)
SingleInstance ==
  /\ constructed <= 1
  /\ \A t \in Threads : Cardinality(got[t]) <= 1
  /\ \A t, u \in Threads : got[t] # {} /\ got[u] # {} => got[t] = got[u]

(***************************************************************************)
(* C9.  When a guard is destroyed while no session is open, the            *)
(* recorder's failure leaves the destructor as an error the caller sees,   *)
(* without replacing an error already on its way out of the region, and    *)
(* the program does not end in std::terminate.                             *)
(***************************************************************************)
GuardFailurePropagates ==
  /\ ~terminated
  /\ \A t \in Threads : pc[t] # "dtor_throw"

(***************************************************************************)
(* C10.  BeginSession with no session open and a destination that cannot   *)
(* be opened fails with the could-not-open error and changes nothing: no   *)
(* session, no file, no header; a WriteProfile that follows fails with     *)
(* the no-session error, and a later BeginSession with a destination that  *)
(* can be opened succeeds and writes its header.                           *)
(***************************************************************************)
C10_Outcome(t) ==
  (Completes(t, "BeginSession") /\ ~abs.open) =>
    IF frame[t].filePath \in BadPaths
      THEN /\ result'[t] = CouldNotOpen(frame[t].filePath)
           /\ m_CurrentSession' = NULL
           /\ ~m_OutStream'.is_open
           /\ m_Mutex' = NoThread
      ELSE result'[t] = Ok

C10_NoTransition(t) ==
  (frame[t].op = "BeginSession" /\ frame[t].filePath \in BadPaths
     /\ pc[t] # "B_lock" /\ pc'[t] # pc[t]) =>
    UNCHANGED <<m_CurrentSession, heap, files, abs>>

C10_Then ==
  /\ \A i \in 1..(Len(hist) - 1) :
       (IsCouldNotOpen(hist[i].res) /\ hist[i + 1].op = "WriteProfile")
         => hist[i + 1].res = NoOpenedSession
  /\ (Quiescent /\ abs.open) =>
       /\ ~m_OutStream.fail
       /\ SubSeq(files[abs.path].data, 1, Len(TraceHeader)) = TraceHeader

SinkOpenFailure ==
  /\ []C10_Then
  /\ [][\A t \in Threads : C10_Outcome(t) /\ C10_NoTransition(t)]_vars

\* A BeginSession failed on its destination, the WriteProfile after it
\* failed for want of a session, and the next BeginSession succeeded.
SinkOpenFailureWitness ==
  /\ Quiescent
  /\ Len(hist) = 3
  /\ hist[1] = [op |-> "BeginSession", res |-> CouldNotOpen("nodir/x.json")]
  /\ hist[2] = [op |-> "WriteProfile", res |-> NoOpenedSession]
  /\ hist[3] = [op |-> "BeginSession", res |-> Ok]
  /\ m_CurrentSession # NULL
  /\ files[abs.path].data = TraceHeader

(***************************************************************************)
(* C11.  Records stand in the output in the order in which their           *)
(* WriteProfile calls were granted the lock, one order for all threads;    *)
(* two records of one thread stand in the order in which that thread       *)
(* submitted them; the order need not be that of the start timestamps.     *)
(***************************************************************************)
IsFields(x) == x.kind = "fields"
Stamp(x) == 1000 * x.ts[1] + x.ts[2]

LockOrder ==
  (Quiescent /\ abs.path \in GoodPaths) =>
    LET recs == SelectSeq(files[abs.path].data, IsFields) IN
    /\ Len(recs) = Len(abs.granted)
    /\ \A i \in 1..Len(recs) : <<recs[i]>> = SubSeq(TraceRecord(abs.granted[i]), 2, 2)
    /\ \A i, j \in 1..Len(recs) :
         (i < j /\ recs[i].tid = recs[j].tid) => Stamp(recs[i]) < Stamp(recs[j])

\* Two threads' records stand against the order of their start timestamps.
LockOrderWitness ==
  /\ Quiescent
  /\ abs.open
  /\ Len(abs.granted) = 2
  /\ LET recs == SelectSeq(files[abs.path].data, IsFields) IN
       /\ Len(recs) = 2
       /\ recs[1].tid # recs[2].tid
       /\ Stamp(recs[1]) > Stamp(recs[2])

(***************************************************************************)
(* C12.  The result a guard submits has Elapsed >= 0 for every pair of     *)
(* clock readings m_Start <= end, equal readings and readings less than a  *)
(* microsecond apart included; Elapsed is the difference of the two        *)
(* readings, each truncated to whole microseconds.                         *)
(***************************************************************************)
Stopped(g) == g.submits > 0

NonNegativeElapsed ==
  \A i \in 1..Len(guards) :
    LET g == guards[i] IN
    Stopped(g) =>
      /\ g.m_Start <= g.endTimePoint
      /\ g.ev.Elapsed >= 0
      /\ g.ev.Elapsed = (g.endTimePoint \div 1000) - (g.m_Start \div 1000)

\* Two guards have stopped: one with readings that differ by less than a
\* microsecond, one with equal readings.
NonNegativeElapsedWitness ==
  \E i, j \in 1..Len(guards) :
    /\ Stopped(guards[i]) /\ Stopped(guards[j])
    /\ guards[i].endTimePoint - guards[i].m_Start \in 1..999
    /\ guards[i].ev.Elapsed = 0
    /\ guards[j].endTimePoint = guards[j].m_Start
    /\ guards[j].ev.Elapsed = 0

(***************************************************************************)
(* C13.  WriteProfile never changes the session state.  No step of it      *)
(* changes the current session or opens or closes the stream; a call that  *)
(* succeeds found a session open, leaves it open, and has appended one     *)
(* record to that session's file and nothing else; a call that fails       *)
(* found no session, leaves none, and leaves every file as it was, the     *)
(* file of an earlier, closed session included.                            *)
(***************************************************************************)
C13_KeepsSession ==
  \A t \in Threads :
    (frame[t].op = "WriteProfile" /\ Steps(t)) =>
      /\ m_CurrentSession' = m_CurrentSession
      /\ heap' = heap
      /\ m_OutStream'.is_open = m_OutStream.is_open
      /\ m_OutStream'.path = m_OutStream.path

C13_Effect ==
  \A t \in Threads :
    Completes(t, "WriteProfile") =>
      IF result'[t].ok
        THEN /\ abs.open /\ abs'.open
             /\ m_CurrentSession' # NULL
             /\ abs'.name = abs.name /\ abs'.path = abs.path
             /\ files' = [abs.out EXCEPT ![abs.path].data =
                            @ \o TraceRecord(frame[t].result)]
        ELSE /\ result'[t] = NoOpenedSession
             /\ ~abs.open /\ ~abs'.open
             /\ m_CurrentSession' = NULL
             /\ ~m_OutStream'.is_open
             /\ files' = abs.out

WriteFrame == [][C13_KeepsSession /\ C13_Effect]_vars

\* A session was opened, written to and closed; the WriteProfile that
\* followed failed, and the closed session's file is as EndSession left it
\* and no other file exists.
WriteFrameWitness ==
  /\ Quiescent
  /\ Len(hist) = 4
  /\ hist[1] = [op |-> "BeginSession", res |-> Ok]
  /\ hist[2] = [op |-> "WriteProfile", res |-> Ok]
  /\ hist[3] = [op |-> "EndSession", res |-> Ok]
  /\ hist[4] = [op |-> "WriteProfile", res |-> NoOpenedSession]
  /\ ~abs.open
  /\ files = abs.out
  /\ IsTrace(files[abs.path].data, TRUE)
  /\ Cardinality(AllRecords(files[abs.path].data)) = 1
  /\ \A p \in GoodPaths \ {abs.path} : ~files[p].exists

(***************************************************************************)
(* C14.  Every write to or close of the stream and every read or write of  *)
(* m_CurrentSession is made by the thread that holds m_Mutex, and no two   *)
(* threads are inside the critical sections of BeginSession, WriteProfile  *)
(* and EndSession at once.                                                 *)
(***************************************************************************)
\* Where a thread is between taking the lock and leaving the call: the
\* tests of m_CurrentSession, the open, the writes, the flush, the close.
CriticalSection ==
  {"B_check", "B_open", "B_isopen", "put", "flush", "W_check", "E_check",
   "E_close", "ret"}

InCritical(t) == pc[t] \in CriticalSection

C14_Holder ==
  /\ \A t \in Threads : InCritical(t) <=> m_Mutex = t
  /\ \A t, u \in Threads : (InCritical(t) /\ InCritical(u)) => t = u

C14_Access ==
  (<<m_CurrentSession, heap, m_OutStream, files>>' #
     <<m_CurrentSession, heap, m_OutStream, files>>) =>
    \E t \in Threads :
      /\ m_Mutex = t
      /\ InCritical(t)
      /\ Steps(t)
      /\ \A u \in Threads \ {t} : ~Steps(u)

LockDiscipline == []C14_Holder /\ [][C14_Access]_vars

\* One thread is writing under the lock while every other thread is
\* waiting for the lock, one of them to end the session.
LockDisciplineWitness ==
  \E t \in Threads :
    /\ pc[t] = "put"
    /\ frame[t].op = "WriteProfile"
    /\ m_Mutex = t
    /\ m_OutStream.buf # <<>>
    /\ \A u \in Threads \ {t} : pc[u] \in {"B_lock", "W_lock", "E_lock"}
    /\ \E u \in Threads : pc[u] = "E_lock"

(***************************************************************************)
(* C15.  Under fair scheduling every BeginSession, WriteProfile and        *)
(* EndSession that was invoked eventually returns or throws, and every     *)
(* exit, the three throws included, releases the lock, so that a failed    *)
(* call leaves no later call waiting for ever.                             *)
(***************************************************************************)
InCall(t) == pc[t] # "idle"

C15_Returns == \A t \in Threads : InCall(t) ~> ~InCall(t)

C15_Released ==
  \A t \in Threads :
    (Steps(t) /\ Len(hist') = Len(hist) + 1) =>
      /\ m_Mutex = t
      /\ m_Mutex' = NoThread

NoBlocking == C15_Returns /\ [][C15_Released]_vars

\* Calls have failed in each of the three ways, a later call has returned
\* normally, no call is in progress and the lock is free.
NoBlockingWitness ==
  /\ Quiescent
  /\ \A t \in Threads : ~InCall(t)
  /\ \E i \in DOMAIN hist : IsAlreadyOpened(hist[i].res)
  /\ \E i \in DOMAIN hist : IsCouldNotOpen(hist[i].res)
  /\ \E i \in DOMAIN hist : hist[i].res = NoOpenedSession
  /\ \E i, j \in DOMAIN hist : i < j /\ ~hist[i].res.ok /\ hist[j].res.ok

(***************************************************************************)
(* C16.  Whenever the lock is free, the flushed content of the open        *)
(* session's file is the header followed by complete records and no        *)
(* footer, with nothing left in the stream's buffer: every WriteProfile    *)
(* that returned has its whole record in the file.  At every instant no    *)
(* record has been written before the header of its session and nothing    *)
(* has been written after a footer.                                        *)
(***************************************************************************)
\* What has been written to p: the file and what the stream still buffers.
Written(p) ==
  files[p].data \o
    (IF m_OutStream.is_open /\ m_OutStream.path = p THEN m_OutStream.buf ELSE <<>>)

C16_Prefix ==
  (Quiescent /\ abs.open /\ abs.path \in GoodPaths) =>
    /\ m_OutStream.is_open
    /\ m_OutStream.path = abs.path
    /\ m_OutStream.buf = <<>>
    /\ IsTrace(files[abs.path].data, FALSE)
    /\ Footers(files[abs.path].data) = {}
    /\ files[abs.path].data = abs.out[abs.path].data
    /\ Cardinality(AllRecords(files[abs.path].data)) = Len(abs.granted)

C16_Order ==
  \A p \in GoodPaths :
    LET w == Written(p) IN
    /\ \A i \in DOMAIN w :
         i <= Len(TraceHeader) => w[i] = TraceHeader[i]
    /\ \A i \in AllRecords(w) : i > Len(TraceHeader)
    /\ \A i \in Footers(w) : i = Len(w)

FlushedPrefix == C16_Prefix /\ C16_Order

\* The lock is free, a session is open, and its file holds the header and
\* the records of two WriteProfile calls that have returned.
FlushedPrefixWitness ==
  /\ Quiescent
  /\ abs.open
  /\ Len(abs.granted) = 2
  /\ \A t \in Threads : pc[t] = "idle"
  /\ Len(files[abs.path].data) = Len(TraceHeader) + 6
  /\ Footers(files[abs.path].data) = {}

(***************************************************************************)
(* C17.  Whenever the lock is free, a current session exists if and only   *)
(* if the output stream is open; so it is after every call, a BeginSession *)
(* that could not open its destination and a BeginSession refused because  *)
(* a session was open included.                                            *)
(***************************************************************************)
SessionStreamAgree ==
  Quiescent =>
    /\ m_CurrentSession # NULL <=> m_OutStream.is_open
    /\ m_OutStream.is_open => (m_OutStream.path = abs.path /\ ~m_OutStream.fail)

\* A BeginSession has failed on its destination, a later one has been
\* refused because a session was open, and that session and its stream
\* are still open.
SessionStreamAgreeWitness ==
  /\ Quiescent
  /\ \A t \in Threads : pc[t] = "idle"
  /\ \E i \in DOMAIN hist :
       hist[i].op = "BeginSession" /\ IsCouldNotOpen(hist[i].res)
  /\ hist # <<>>
  /\ hist[Len(hist)].op = "BeginSession"
  /\ IsAlreadyOpened(hist[Len(hist)].res)
  /\ m_CurrentSession # NULL
  /\ m_OutStream.is_open

(***************************************************************************)
(* C18.  Sessions can follow one another: after EndSession no session is   *)
(* open and a BeginSession on a destination that can be opened succeeds;   *)
(* whenever the lock is free every output file holds one header, complete  *)
(* records and, unless it is the open session's, exactly one footer at its *)
(* end; and every record stands once, in the file of the session that was  *)
(* open when its WriteProfile held the lock, and in no other file.         *)
(***************************************************************************)
IsOpenOutput(p) == abs.open /\ abs.path = p

C18_Outputs ==
  Quiescent =>
    /\ \A p \in GoodPaths :
         /\ files[p] = abs.out[p]
         /\ files[p].exists =>
              /\ IsTrace(files[p].data, ~IsOpenOutput(p))
              /\ Footers(files[p].data) =
                   (IF IsOpenOutput(p) THEN {} ELSE {Len(files[p].data)})
         /\ ~files[p].exists => files[p].data = <<>>
    /\ \A p, q \in GoodPaths :
         \A i \in AllRecords(files[p].data), j \in AllRecords(files[q].data) :
           files[p].data[i] = files[q].data[j] => (p = q /\ i = j)

C18_Again ==
  \A t \in Threads :
    /\ Completes(t, "EndSession") =>
         (m_CurrentSession' = NULL /\ ~abs'.open /\ ~m_OutStream'.is_open)
    /\ (Completes(t, "BeginSession") /\ ~abs.open
          /\ frame[t].filePath \in GoodPaths) =>
         /\ result'[t] = Ok
         /\ abs'.open
         /\ abs'.path = frame[t].filePath
         /\ m_CurrentSession' # NULL

SequentialSessions == []C18_Outputs /\ [][C18_Again]_vars

\* A first session was begun, written to and ended, and a second session
\* is open on another file: the record is in the first file only.
SequentialSessionsWitness ==
  /\ Quiescent
  /\ Len(hist) = 4
  /\ hist[1] = [op |-> "BeginSession", res |-> Ok]
  /\ hist[2] = [op |-> "WriteProfile", res |-> Ok]
  /\ hist[3] = [op |-> "EndSession", res |-> Ok]
  /\ hist[4] = [op |-> "BeginSession", res |-> Ok]
  /\ abs.open
  /\ \E p \in GoodPaths \ {abs.path} :
       /\ IsTrace(files[p].data, TRUE)
       /\ Cardinality(AllRecords(files[p].data)) = 1
  /\ files[abs.path].data = TraceHeader

====
